---- MODULE Spec2Model ----
(***************************************************************************)
(* MeetScribe: the recording script (main.py) and the dashboard            *)
(* (new_UI.py).  The module models                                         *)
(*   - the voice-activity-gated capture loop          (SpecCapture),       *)
(*   - the greedy speaker merge                       (SpecMerge),         *)
(*   - the segment / word to speaker alignment        (SpecAlign),         *)
(*   - the upload folder with meetings.json, recording runs and the        *)
(*     dashboard's rename / delete requests           (SpecStore).         *)
(* Every specification shares the variables below; a specification holds   *)
(* the variables of the other parts at their idle values.                  *)
(***************************************************************************)
EXTENDS Integers, Sequences, FiniteSets, TLC

VARIABLES
    \* ---- capture loop (main.py 33-66)
    audio_queue,          \* frames put by the stream callback, not yet read
    silence_start_time,   \* NoTime or the clock reading at the first silent frame
    recording,            \* the loop flag
    now,                  \* the reading of time.time(), in seconds
    speechOver,           \* environment: the speaker has stopped for good
    lastFrame,            \* history: class of the frame processed last
    speechSince,          \* history: a speech frame was processed since
                          \*          silence_start_time was last set
    \* ---- diarization, merge and alignment (main.py 76-175)
    pc,                   \* position of the script
    diarization,          \* turns yielded by diarization.itertracks
    transcript_segments,  \* segments (with words) of the transcript
    turn_index,           \* position of the merge loop in diarization
    speaker_embeddings,   \* insertion-ordered dict: <<speaker, embedding>>
    merged_mapping,       \* dict: diarization speaker -> merged label
    speaker_counter,
    speaker_segments,
    seg_index,            \* position of the matching loops in the transcript
    final_output,
    word_level_data,
    \* ---- upload folder and dashboard (main.py 184-205, new_UI.py 535-683)
    files,                \* the upload folder: file name -> content
    runs,                 \* recording runs so far (clock of the timestamps)
    requests,             \* rename / delete requests served so far
    resp                  \* the last operation and its answer

vars == <<audio_queue, silence_start_time, recording, now, speechOver,
          lastFrame, speechSince, pc, diarization, transcript_segments,
          turn_index, speaker_embeddings, merged_mapping, speaker_counter,
          speaker_segments, seg_index, final_output, word_level_data, files,
          runs, requests, resp>>

captureVars == <<audio_queue, silence_start_time, recording, now, speechOver,
                 lastFrame, speechSince>>

None == "None"
\* An empty Python dict.
EmptyDict == [x \in {} |-> None]
\* main.py 36: silence_start_time = None, kept apart from every clock reading.
NoTime == -1

notCapture == <<pc, diarization, transcript_segments, turn_index,
                speaker_embeddings, merged_mapping, speaker_counter,
                speaker_segments, seg_index, final_output, word_level_data,
                files, runs, requests, resp>>

(***************************************************************************)
(*                             CAPTURE LOOP                                *)
(***************************************************************************)

\* Bounds of the capture model.
MaxQueue == 2
MaxClock == 4

\* main.py 35: silence_duration_limit = 2.0 (seconds).
silence_duration_limit == 2
\* main.py 39 and 63: the limit the program announces to the user, "1 sec".
announced_silence_limit == 1

\* A frame is modelled by the answer of the voice-activity classifier for it.
Frames == {"speech", "silence"}

\* main.py 41-42
is_speech(frame_bytes) == frame_bytes = "speech"

CaptureIdle ==
    /\ audio_queue = <<>>
    /\ silence_start_time = NoTime
    /\ recording = FALSE
    /\ now = 0
    /\ speechOver = FALSE
    /\ lastFrame = None
    /\ speechSince = FALSE

\* main.py 33-37
CaptureInit ==
    /\ audio_queue = <<>>
    /\ silence_start_time = NoTime
    /\ recording = TRUE
    /\ now = 0
    /\ speechOver = FALSE
    /\ lastFrame = None
    /\ speechSince = FALSE

\* main.py 44-45: the stream delivers a block while the InputStream is open.
\* Once the speaker has stopped every new frame is non-speech.
callback ==
    /\ recording
    /\ Len(audio_queue) < MaxQueue
    /\ \E f \in Frames :
          /\ speechOver => ~is_speech(f)
          /\ audio_queue' = Append(audio_queue, f)
    /\ UNCHANGED <<silence_start_time, recording, now, speechOver, lastFrame,
                   speechSince>>
    /\ UNCHANGED notCapture

\* Environment: from now on nobody speaks.
StopSpeaking ==
    /\ recording
    /\ ~speechOver
    /\ speechOver' = TRUE
    /\ UNCHANGED <<audio_queue, silence_start_time, recording, now, lastFrame,
                   speechSince>>
    /\ UNCHANGED notCapture

\* The clock advances by one second.  Readings are kept in 0..MaxClock: at
\* MaxClock the origin is shifted instead, which keeps every difference
\* now - silence_start_time up to MaxClock (and MaxClock exceeds the limit).
Tick ==
    /\ recording
    /\ IF now < MaxClock
          THEN /\ now' = now + 1
               /\ UNCHANGED silence_start_time
          ELSE /\ now' = now
               /\ silence_start_time' =
                     IF silence_start_time = NoTime \/ silence_start_time = 0
                        THEN silence_start_time
                        ELSE silence_start_time - 1
    /\ UNCHANGED <<audio_queue, recording, speechOver, lastFrame, speechSince>>
    /\ UNCHANGED notCapture

\* main.py 62
SilenceTimedOut(t, start) == t - start > silence_duration_limit

\* main.py 53-56: a speech frame.
SpeechBranchKeepsStart ==
    /\ UNCHANGED silence_start_time
    /\ UNCHANGED recording
SpeechBranch ==
    /\ silence_start_time' = NoTime
    /\ UNCHANGED recording

\* main.py 57-64: a non-speech frame.
SilenceBranchRestarts ==
    /\ silence_start_time' = now
    /\ UNCHANGED recording
SilenceBranch ==
    IF silence_start_time = NoTime
       THEN /\ silence_start_time' = now
            /\ UNCHANGED recording
       ELSE IF SilenceTimedOut(now, silence_start_time)
               THEN /\ recording' = FALSE
                    /\ UNCHANGED silence_start_time
               ELSE UNCHANGED <<silence_start_time, recording>>

\* main.py 48-64: one iteration of the loop that gets a frame.
ProcessFrame ==
    /\ recording
    /\ audio_queue # <<>>
    /\ LET data == Head(audio_queue) IN
          /\ audio_queue' = Tail(audio_queue)
          /\ lastFrame' = data
          /\ IF is_speech(data)
                THEN /\ SpeechBranch
                     /\ speechSince' = TRUE
                ELSE /\ SilenceBranch
                     /\ speechSince' =
                           IF silence_start_time = NoTime THEN FALSE
                                                        ELSE speechSince
    /\ UNCHANGED <<now, speechOver>>
    /\ UNCHANGED notCapture

\* main.py 50, 65-66: queue.get times out on an empty queue; the loop goes on.
QueueEmpty ==
    /\ recording
    /\ audio_queue = <<>>
    /\ UNCHANGED captureVars
    /\ UNCHANGED notCapture

MainLoop == ProcessFrame \/ QueueEmpty

(***************************************************************************)
(*                     idle values of the other parts                      *)
(***************************************************************************)
MergeIdle ==
    /\ diarization = <<>>
    /\ turn_index = 1
    /\ speaker_embeddings = <<>>
    /\ merged_mapping = EmptyDict
    /\ speaker_counter = 1

AlignIdle ==
    /\ transcript_segments = <<>>
    /\ speaker_segments = <<>>
    /\ seg_index = 1
    /\ final_output = <<>>
    /\ word_level_data = <<>>

StoreIdle ==
    /\ files = EmptyDict
    /\ runs = 0
    /\ requests = 0
    /\ resp = [op |-> "none", base |-> <<>>, new |-> <<>>, status |-> 0]

(***************************************************************************)
(*                     DIARIZATION AND SPEAKER MERGE                       *)
(***************************************************************************)

\* Bound of the merge model: turns in a diarization.
MaxTurns == 3

\* main.py 94: MERGE_THRESHOLD = 0.88, in hundredths.
MERGE_THRESHOLD == 88

\* Labels the diarization pipeline gives to speakers.
Speakers == {"SPEAKER_00", "SPEAKER_01", "SPEAKER_02"}

\* Speaker embeddings: vectors of the plane.  <<1,0>>, <<2,1>>, <<1,1>> are
\* pairwise 26.6, 18.4 and 45 degrees apart (cosines 0.894, 0.949, 0.707).
Embeddings == {<<1, 0>>, <<2, 1>>, <<1, 1>>, <<0, 1>>}

Put(dict, key, value) ==
    [k \in DOMAIN dict \cup {key} |-> IF k = key THEN value ELSE dict[k]]

Dot(a, b) == a[1] * b[1] + a[2] * b[2]

\* main.py 105-106: cosine_similarity([a], [b])[0][0] >= MERGE_THRESHOLD,
\* i.e. a.b / (|a| |b|) >= 0.88, compared on the squares.
Similar(a, b) ==
    /\ Dot(a, b) >= 0
    /\ 100 * 100 * Dot(a, b) * Dot(a, b)
          >= MERGE_THRESHOLD * MERGE_THRESHOLD * Dot(a, a) * Dot(b, b)

DigitStr == <<"1", "2", "3", "4", "5", "6", "7", "8", "9">>

\* main.py 112: f"speaker{speaker_counter}"
NewLabel(counter) == "speaker" \o DigitStr[counter]

\* main.py 97: speaker in speaker_embeddings
Registered(embs, speaker) == \E k \in 1..Len(embs) : embs[k].speaker = speaker

\* main.py 103-109: position in speaker_embeddings (dict order) of the entry
\* the scan breaks on, 0 if the scan ends unmatched.
LastMatch(embedding, embs) ==
    LET M == {k \in 1..Len(embs) : Similar(embedding, embs[k].emb)} IN
    IF M = {} THEN 0 ELSE CHOOSE k \in M : \A j \in M : j <= k
RECURSIVE ScanFrom(_, _, _)
ScanFrom(embedding, embs, k) ==
    IF k > Len(embs) THEN 0
    ELSE IF Similar(embedding, embs[k].emb) THEN k
    ELSE ScanFrom(embedding, embs, k + 1)
FirstMatch(embedding, embs) == ScanFrom(embedding, embs, 1)

\* main.py 96-115: the body of the merge loop for one turn, on the loop's
\* state st = [embs, mapping, counter].
MergeTurn(st, turn) ==
    IF Registered(st.embs, turn.speaker) THEN st
    ELSE LET m == FirstMatch(turn.emb, st.embs) IN
         IF m # 0
            THEN [st EXCEPT !.mapping =
                     Put(@, turn.speaker, st.mapping[st.embs[m].speaker])]
            ELSE [embs |-> Append(st.embs, [speaker |-> turn.speaker,
                                            emb |-> turn.emb]),
                  mapping |-> Put(st.mapping, turn.speaker, NewLabel(st.counter)),
                  counter |-> st.counter + 1]

\* main.py 89-91
MergeStart == [embs |-> <<>>, mapping |-> EmptyDict, counter |-> 1]

\* main.py 96-115: the whole loop.
RECURSIVE MergeFrom(_, _, _)
MergeFrom(st, turns, k) ==
    IF k > Len(turns) THEN st
    ELSE MergeFrom(MergeTurn(st, turns[k]), turns, k + 1)
MergeAll(turns) == MergeFrom(MergeStart, turns, 1)

notMerge == <<audio_queue, silence_start_time, recording, now, speechOver,
              lastFrame, speechSince, transcript_segments, seg_index,
              final_output, word_level_data, files, runs, requests, resp>>

\* main.py 96-115: one iteration of the merge loop.
MergeStep ==
    /\ pc = "merge"
    /\ turn_index <= Len(diarization)
    /\ LET st == MergeTurn([embs |-> speaker_embeddings,
                            mapping |-> merged_mapping,
                            counter |-> speaker_counter],
                           diarization[turn_index]) IN
          /\ speaker_embeddings' = st.embs
          /\ merged_mapping' = st.mapping
          /\ speaker_counter' = st.counter
    /\ turn_index' = turn_index + 1
    /\ UNCHANGED <<pc, diarization, speaker_segments>>
    /\ UNCHANGED notMerge

\* main.py 118-121
BuildSpeakerSegments ==
    /\ pc = "merge"
    /\ turn_index > Len(diarization)
    /\ speaker_segments' =
          [k \in 1..Len(diarization) |->
              [start |-> diarization[k].start,
               end |-> diarization[k].end,
               speaker |-> merged_mapping[diarization[k].speaker]]]
    /\ pc' = "match"
    /\ UNCHANGED <<diarization, turn_index, speaker_embeddings, merged_mapping,
                   speaker_counter>>
    /\ UNCHANGED notMerge

\* Diarizations of the merge model: the k-th turn spans [k-1, k].
MergeInputs ==
    UNION {[1..n -> [speaker : Speakers, emb : Embeddings]] : n \in 1..MaxTurns}

InitMerge ==
    /\ CaptureIdle
    /\ AlignIdle
    /\ StoreIdle
    /\ pc = "merge"
    /\ \E d \in MergeInputs :
          diarization = [k \in 1..Len(d) |->
                            [start |-> k - 1, end |-> k,
                             speaker |-> d[k].speaker, emb |-> d[k].emb]]
    /\ turn_index = 1
    /\ speaker_embeddings = <<>>
    /\ merged_mapping = EmptyDict
    /\ speaker_counter = 1

NextMerge ==
    \/ MergeStep
    \/ BuildSpeakerSegments

SpecMerge == InitMerge /\ [][NextMerge]_vars

\* Turns the loop has gone through.
Processed == 1..(turn_index - 1)

\* The embedding a speaker was classified with: the one it was registered
\* with, or for a speaker that is no representative the one of its last turn.
ClassifiedEmbedding(s) ==
    IF Registered(speaker_embeddings, s)
       THEN LET k == CHOOSE k \in 1..Len(speaker_embeddings) :
                        speaker_embeddings[k].speaker = s
            IN speaker_embeddings[k].emb
       ELSE LET T == {i \in Processed : diarization[i].speaker = s}
                i == CHOOSE i \in T : \A j \in T : j <= i
            IN diarization[i].emb

\* C4 as stated: after the merge pass any two speaker labels whose embeddings
\* have similarity >= MERGE_THRESHOLD have the same merged label.
C4_SimilarSpeakersShareLabel ==
    (pc = "match") =>
       \A s1, s2 \in DOMAIN merged_mapping :
          Similar(ClassifiedEmbedding(s1), ClassifiedEmbedding(s2))
             => merged_mapping[s1] = merged_mapping[s2]

\* C4 amended: every speaker label seen so far is mapped to the merged label
\* of the first registered representative whose embedding has similarity
\* >= MERGE_THRESHOLD with the label's own embedding (there is one), and
\* distinct representatives have distinct merged labels.
C4_MergedWithFirstSimilarRepresentative ==
    /\ DOMAIN merged_mapping = {diarization[i].speaker : i \in Processed}
    /\ \A s \in DOMAIN merged_mapping :
          LET M == {k \in 1..Len(speaker_embeddings) :
                       Similar(ClassifiedEmbedding(s), speaker_embeddings[k].emb)}
          IN /\ M # {}
             /\ \E k \in M :
                   /\ \A j \in M : k <= j
                   /\ merged_mapping[s] =
                         merged_mapping[speaker_embeddings[k].speaker]
    /\ \A j, k \in 1..Len(speaker_embeddings) :
          j # k => merged_mapping[speaker_embeddings[j].speaker]
                      # merged_mapping[speaker_embeddings[k].speaker]

\* The pass is over, one label was merged into a representative that is not
\* the last one, and two similar labels ended with different merged labels.
C4_Witness ==
    /\ pc = "match"
    /\ \E s \in DOMAIN merged_mapping :
          /\ ~Registered(speaker_embeddings, s)
          /\ Len(speaker_embeddings) > 1
          /\ merged_mapping[s] = merged_mapping[speaker_embeddings[1].speaker]
          /\ Similar(ClassifiedEmbedding(s), speaker_embeddings[2].emb)

(***************************************************************************)
(*                              ALIGNMENT                                  *)
(***************************************************************************)

\* Bounds of the alignment model: the time horizon, and the numbers of
\* diarization turns, transcript segments and words of a segment.
MaxT == 1
MaxAlignTurns == 2
MaxSegments == 1
MaxWords == 1

Times == 0..MaxT

\* main.py 129, 167: the overlap test between [start, end] and the turn s.
OverlapsStrictly(start, end, s) == ~(end <= s.start \/ start >= s.end)
Overlaps(start, end, s) == ~(end < s.start \/ start > s.end)

\* main.py 127-131, 164-169: the scan of speaker_segments from position k,
\* which breaks on the first overlapping turn.
RECURSIVE AssignFrom(_, _, _, _)
AssignFrom(start, end, segs, k) ==
    IF k > Len(segs) THEN "Unknown"
    ELSE IF Overlaps(start, end, segs[k]) THEN segs[k].speaker
    ELSE AssignFrom(start, end, segs, k + 1)
AssignSpeaker(start, end, segs) == AssignFrom(start, end, segs, 1)

notAlign == <<audio_queue, silence_start_time, recording, now, speechOver,
              lastFrame, speechSince, diarization, turn_index,
              speaker_embeddings, merged_mapping, speaker_counter,
              speaker_segments, transcript_segments, files, runs, requests,
              resp>>

\* main.py 125-137: one iteration of the segment loop.  The text of a segment
\* is carried through unchanged and is left out.
MatchSegment ==
    /\ pc = "match"
    /\ seg_index <= Len(transcript_segments)
    /\ LET segment == transcript_segments[seg_index] IN
          final_output' = Append(final_output,
              [speaker |-> AssignSpeaker(segment.start, segment.end,
                                         speaker_segments),
               start |-> segment.start,
               end |-> segment.end])
    /\ seg_index' = seg_index + 1
    /\ UNCHANGED <<pc, word_level_data>>
    /\ UNCHANGED notAlign

\* main.py 138-160: the segment loop is over; the transcript is written and
\* the word loop starts.
StartWords ==
    /\ pc = "match"
    /\ seg_index > Len(transcript_segments)
    /\ pc' = "words"
    /\ seg_index' = 1
    /\ UNCHANGED <<final_output, word_level_data>>
    /\ UNCHANGED notAlign

\* main.py 161-175: one iteration of the outer word loop, with its inner loop
\* over the words of the segment (none when segment.words is empty).
MatchWords ==
    /\ pc = "words"
    /\ seg_index <= Len(transcript_segments)
    /\ LET segment == transcript_segments[seg_index] IN
          word_level_data' = word_level_data \o
              [k \in 1..Len(segment.words) |->
                  [start |-> segment.words[k].start,
                   end |-> segment.words[k].end,
                   speaker |-> AssignSpeaker(segment.words[k].start,
                                             segment.words[k].end,
                                             speaker_segments)]]
    /\ seg_index' = seg_index + 1
    /\ UNCHANGED <<pc, final_output>>
    /\ UNCHANGED notAlign

\* main.py 176-181: the word loop is over.
FinishWords ==
    /\ pc = "words"
    /\ seg_index > Len(transcript_segments)
    /\ pc' = "save"
    /\ UNCHANGED <<seg_index, final_output, word_level_data>>
    /\ UNCHANGED notAlign

\* Inputs of the alignment model.  Turns come in chronological order;
\* segments follow one another, and the words of a segment lie inside it and
\* follow one another.  In this model a speaker's voice decides its embedding.
AlignSpeakers == {"SPEAKER_00", "SPEAKER_01"}
VoiceOf(speaker) == IF speaker = "SPEAKER_00" THEN <<1, 0>> ELSE <<0, 1>>

Sequential(list) ==
    \A k \in 1..(Len(list) - 1) : list[k].end <= list[k + 1].start

SeqsUpTo(S, n) == UNION {[1..m -> S] : m \in 0..n}

AlignTurns ==
    {t \in [start : Times, end : Times, speaker : AlignSpeakers] :
        t.start <= t.end}

AlignDiarizations ==
    {d \in SeqsUpTo(AlignTurns, MaxAlignTurns) :
        \A k \in 1..(Len(d) - 1) : d[k].start <= d[k + 1].start}

AlignWords == {w \in [start : Times, end : Times] : w.start <= w.end}

AlignSegments ==
    {g \in [start : Times, end : Times,
            words : SeqsUpTo(AlignWords, MaxWords)] :
        /\ g.start <= g.end
        /\ Sequential(g.words)
        /\ \A k \in 1..Len(g.words) :
              g.start <= g.words[k].start /\ g.words[k].end <= g.end}

AlignTranscripts ==
    {t \in SeqsUpTo(AlignSegments, MaxSegments) : Sequential(t)}

\* The script at main.py 117: the merge loop has gone through the diarization.
InitAlign ==
    /\ CaptureIdle
    /\ StoreIdle
    /\ pc = "merge"
    /\ \E d \in AlignDiarizations :
          /\ diarization = [k \in 1..Len(d) |->
                               [start |-> d[k].start, end |-> d[k].end,
                                speaker |-> d[k].speaker,
                                emb |-> VoiceOf(d[k].speaker)]]
          /\ turn_index = Len(d) + 1
    /\ LET st == MergeAll(diarization) IN
          /\ speaker_embeddings = st.embs
          /\ merged_mapping = st.mapping
          /\ speaker_counter = st.counter
    /\ transcript_segments \in AlignTranscripts
    /\ speaker_segments = <<>>
    /\ seg_index = 1
    /\ final_output = <<>>
    /\ word_level_data = <<>>

NextAlign ==
    \/ BuildSpeakerSegments
    \/ MatchSegment
    \/ StartWords
    \/ MatchWords
    \/ FinishWords

SpecAlign == InitAlign /\ [][NextAlign]_vars

\* The turns whose closed interval shares a point with [start, end].
Intersecting(start, end) ==
    {i \in 1..Len(diarization) :
        \E t \in Times :
           /\ start <= t /\ t <= end
           /\ diarization[i].start <= t /\ t <= diarization[i].end}

\* The speaker C5 asks for: the merged label of the first intersecting turn,
\* "Unknown" when there is none.
AlignedSpeaker(start, end) ==
    LET I == Intersecting(start, end) IN
    IF I = {} THEN "Unknown"
    ELSE merged_mapping[diarization[CHOOSE i \in I : \A j \in I : i <= j].speaker]

\* The words of the first n segments, in order.
RECURSIVE WordsOf(_, _)
WordsOf(segments, n) ==
    IF n = 0 THEN <<>> ELSE WordsOf(segments, n - 1) \o segments[n].words

\* C5: every segment and every word matched so far carries the merged label of
\* the first turn, in diarization order, whose closed interval intersects its
\* own, and "Unknown" exactly when no turn intersects it.
C5_AlignedToFirstIntersectingTurn ==
    (pc \in {"match", "words", "save"}) =>
       /\ Len(final_output) =
             (IF pc = "match" THEN seg_index - 1 ELSE Len(transcript_segments))
       /\ \A k \in 1..Len(final_output) :
             /\ final_output[k].start = transcript_segments[k].start
             /\ final_output[k].end = transcript_segments[k].end
             /\ final_output[k].speaker =
                   AlignedSpeaker(final_output[k].start, final_output[k].end)
             /\ (final_output[k].speaker = "Unknown") <=>
                   (Intersecting(final_output[k].start, final_output[k].end) = {})
       /\ LET W == WordsOf(transcript_segments,
                           IF pc = "match" THEN 0
                           ELSE IF pc = "words" THEN seg_index - 1
                           ELSE Len(transcript_segments))
          IN /\ Len(word_level_data) = Len(W)
             /\ \A k \in 1..Len(W) :
                   /\ word_level_data[k].start = W[k].start
                   /\ word_level_data[k].end = W[k].end
                   /\ word_level_data[k].speaker =
                         AlignedSpeaker(W[k].start, W[k].end)
                   /\ (word_level_data[k].speaker = "Unknown") <=>
                         (Intersecting(W[k].start, W[k].end) = {})

\* Both loops are over; a segment took the label of a turn that is not the only
\* one intersecting it, and a word found no turn.
C5_Witness ==
    /\ pc = "save"
    /\ \E k \in 1..Len(final_output) :
          /\ Cardinality(Intersecting(final_output[k].start,
                                      final_output[k].end)) > 1
          /\ final_output[k].speaker # "Unknown"
    /\ \E k \in 1..Len(word_level_data) :
          word_level_data[k].speaker = "Unknown"

(***************************************************************************)
(*                 STRINGS (file names are sequences of characters)        *)
(***************************************************************************)

StartsWith(s, prefix) ==
    Len(prefix) <= Len(s) /\ SubSeq(s, 1, Len(prefix)) = prefix

EndsWith(s, suffix) ==
    Len(suffix) <= Len(s) /\ SubSeq(s, Len(s) - Len(suffix) + 1, Len(s)) = suffix

\* os.path.splitext: the extension starts at the last dot, unless only dots
\* come before it.
splitext(p) ==
    LET dots == {i \in 1..Len(p) : p[i] = "."} IN
    IF dots = {} THEN <<p, <<>>>>
    ELSE LET d == CHOOSE i \in dots : \A j \in dots : j <= i IN
         IF \E j \in 1..(d - 1) : p[j] # "."
            THEN <<SubSeq(p, 1, d - 1), SubSeq(p, d, Len(p))>>
            ELSE <<p, <<>>>>

\* os.path.basename: what follows the last "/".
basename(p) ==
    LET seps == {i \in 1..Len(p) : p[i] = "/"} IN
    IF seps = {} THEN p
    ELSE SubSeq(p, (CHOOSE i \in seps : \A j \in seps : j <= i) + 1, Len(p))

LowerCase == <<"a", "b", "c", "d", "e", "f", "g", "h", "i", "j", "k", "l", "m", "n", "o", "p", "q", "r", "s", "t", "u", "v", "w", "x", "y", "z">>
UpperCase == <<"A", "B", "C", "D", "E", "F", "G", "H", "I", "J", "K", "L", "M", "N", "O", "P", "Q", "R", "S", "T", "U", "V", "W", "X", "Y", "Z">>
Digits == {"0", "1", "2", "3", "4", "5", "6", "7", "8", "9"}

\* str.lower on one character.
LowerChar(c) ==
    IF \E i \in 1..Len(UpperCase) : UpperCase[i] = c
       THEN LowerCase[CHOOSE i \in 1..Len(UpperCase) : UpperCase[i] = c]
       ELSE c
lower(s) == [i \in 1..Len(s) |-> LowerChar(s[i])]

\* str.strip(chars)
RECURSIVE lstrip(_, _)
lstrip(s, chars) ==
    IF s # <<>> /\ Head(s) \in chars THEN lstrip(Tail(s), chars) ELSE s
RECURSIVE rstrip(_, _)
rstrip(s, chars) ==
    IF s # <<>> /\ s[Len(s)] \in chars
       THEN rstrip(SubSeq(s, 1, Len(s) - 1), chars) ELSE s
strip(s, chars) == rstrip(lstrip(s, chars), chars)

Whitespace == {" "}

\* new_UI.py 575: the class [A-Za-z0-9._-]
SafeChar(c) ==
    \/ \E i \in 1..Len(LowerCase) : LowerCase[i] = c \/ UpperCase[i] = c
    \/ c \in Digits
    \/ c \in {".", "_", "-"}

\* new_UI.py 575: re.sub(r"[^A-Za-z0-9._-]+", "_", s): every maximal run of
\* other characters becomes one "_".
RECURSIVE resub(_, _)
resub(s, inRun) ==
    IF s = <<>> THEN <<>>
    ELSE IF SafeChar(Head(s)) THEN <<Head(s)>> \o resub(Tail(s), FALSE)
    ELSE IF inRun THEN resub(Tail(s), TRUE)
    ELSE <<"_">> \o resub(Tail(s), TRUE)

\* new_UI.py 575
sanitize(new_base) == strip(resub(new_base, FALSE), {".", "_", "-"})

(***************************************************************************)
(*                  UPLOAD FOLDER, RECORDING RUNS, DASHBOARD               *)
(***************************************************************************)

\* Bounds of the store model: recording runs, and requests to the dashboard.
MaxRuns == 2
MaxRequests == 3

\* new_UI.py 21
AUDIO_EXTS == {<<".", "w", "a", "v">>,
               <<".", "m", "p", "3">>,
               <<".", "m", "4", "a">>,
               <<".", "o", "g", "g">>,
               <<".", "f", "l", "a", "c">>}

ExtWav == <<".", "w", "a", "v">>
ExtTxt == <<".", "t", "x", "t">>
ExtDocx == <<".", "d", "o", "c", "x">>
ExtJson == <<".", "j", "s", "o", "n">>
SufWordsJson == <<"_", "w", "o", "r", "d", "s", ".", "j", "s", "o", "n">>
SufDiarizedJson == <<"_", "d", "i", "a", "r", "i", "z", "e", "d", ".", "j", "s", "o", "n">>
SufSpeakeredJson == <<"_", "s", "p", "e", "a", "k", "e", "r", "e", "d", ".", "j", "s", "o", "n">>
SufSpeakeredTxt == <<"_", "s", "p", "e", "a", "k", "e", "r", "e", "d", ".", "t", "x", "t">>

\* main.py 195, new_UI.py 618
MEETINGS_FILE == <<"m", "e", "e", "t", "i", "n", "g", "s", ".", "j", "s", "o", "n">>

\* main.py 21-22: base_filename = f"recording_{timestamp}"; the timestamp of
\* the n-th run is the character DigitStr[n].
base_filename(n) == <<"r", "e", "c", "o", "r", "d", "i", "n", "g", "_">> \o <<DigitStr[n]>>

\* Contents of files.  A JSON file holds a list.
AudioContent == [kind |-> "audio", data |-> <<>>]
TextContent == [kind |-> "text", data |-> <<>>]
JsonContent(list) == [kind |-> "json", data |-> list]

\* main.py 132-137 and 170-175: what a run writes to the two transcripts.
TranscriptData == <<[speaker |-> "speaker1", text |-> "hi"]>>
WordsData == <<[word |-> "hi", speaker |-> "speaker1"]>>

exists(name) == name \in DOMAIN files

\* open(..., "w"): the folder with `name` created or overwritten.
Write(folder, name, content) ==
    [f \in DOMAIN folder \cup {name} |->
        IF f = name THEN content ELSE folder[f]]

\* main.py 186-193
meeting_entry(n) ==
    LET AUDIO_FILE == base_filename(n) \o ExtWav IN
    [id |-> n,
     name |-> splitext(basename(AUDIO_FILE))[1],
     audio |-> basename(AUDIO_FILE),
     transcript |-> basename(base_filename(n) \o ExtJson),
     words |-> basename(base_filename(n) \o SufWordsJson),
     created |-> n]

\* main.py 196-202
AppendedOverwrites(folder, entry) == <<entry>>
Appended(folder, entry) ==
    IF MEETINGS_FILE \in DOMAIN folder
       THEN Append(folder[MEETINGS_FILE].data, entry)
       ELSE <<entry>>

notStore == <<audio_queue, silence_start_time, recording, now, speechOver,
              lastFrame, speechSince, pc, diarization, transcript_segments,
              turn_index, speaker_embeddings, merged_mapping, speaker_counter,
              speaker_segments, seg_index, final_output, word_level_data>>

\* main.py 68-205: a recording run saves the audio, the transcripts and the
\* word-level data, and appends its record to meetings.json.
RecordingRun ==
    /\ runs < MaxRuns
    /\ LET n == runs + 1
           base == base_filename(n)
           f1 == Write(files, base \o ExtWav, AudioContent)
           f2 == Write(f1, base \o ExtTxt, TextContent)
           f3 == Write(f2, base \o ExtJson, JsonContent(TranscriptData))
           f4 == Write(f3, base \o SufWordsJson, JsonContent(WordsData))
       IN /\ files' = Write(f4, MEETINGS_FILE,
                            JsonContent(Appended(f4, meeting_entry(n))))
          /\ runs' = n
          /\ resp' = [op |-> "run", base |-> base, new |-> <<>>, status |-> 0]
    /\ UNCHANGED requests
    /\ UNCHANGED notStore

\* new_UI.py 580-599: the (source, target) names of the files of `base`.
Candidates(base, safe_new) ==
    {<<base \o ext, safe_new \o ext>> : ext \in
        {e \in AUDIO_EXTS \cup {ExtTxt, ExtDocx, ExtJson, SufWordsJson,
                                SufDiarizedJson, SufSpeakeredJson,
                                SufSpeakeredTxt} : exists(base \o e)}}

\* new_UI.py 613-615
Renamed(folder, candidates) ==
    LET srcs == {c[1] : c \in candidates}
        dsts == {c[2] : c \in candidates}
    IN [f \in (DOMAIN folder \ srcs) \cup dsts |->
           IF f \in dsts
              THEN folder[(CHOOSE c \in candidates : c[2] = f)[1]]
              ELSE folder[f]]

\* new_UI.py 630-649: the new value of a file field of a record.
NewFileField(key, val, safe_new) ==
    IF EndsWith(val, SufWordsJson) /\ key = "words" THEN safe_new \o SufWordsJson
    ELSE IF EndsWith(val, SufDiarizedJson) THEN safe_new \o SufDiarizedJson
    ELSE IF EndsWith(val, SufSpeakeredJson) THEN safe_new \o SufSpeakeredJson
    ELSE IF EndsWith(val, ExtJson) THEN safe_new \o ExtJson
    ELSE IF \E ext \in AUDIO_EXTS : EndsWith(val, ext)
            THEN safe_new \o splitext(val)[2]
    ELSE IF EndsWith(val, ExtTxt) THEN safe_new \o ExtTxt
    ELSE IF EndsWith(val, ExtDocx) THEN safe_new \o ExtDocx
    ELSE val

\* new_UI.py 624-649: one record of meetings.json brought in line.
SyncRecordWithId(m, base, safe_new) ==
    [key \in DOMAIN m |->
        IF key = "id" /\ "name" \in DOMAIN m /\ splitext(m["name"])[1] = base
           THEN 0
        ELSE IF key = "name" /\ splitext(m[key])[1] = base THEN safe_new
        ELSE IF key \in {"audio", "transcript", "words"}
                /\ StartsWith(splitext(m[key])[1], base)
                THEN NewFileField(key, m[key], safe_new)
        ELSE m[key]]
SyncRecord(m, base, safe_new) ==
    [key \in DOMAIN m |->
        IF key = "name" /\ splitext(m[key])[1] = base THEN safe_new
        ELSE IF key \in {"audio", "transcript", "words"}
                /\ StartsWith(splitext(m[key])[1], base)
                THEN NewFileField(key, m[key], safe_new)
        ELSE m[key]]

\* new_UI.py 617-654: meetings.json, if it exists, with every record synced.
Synced(folder, base, safe_new) ==
    IF MEETINGS_FILE \in DOMAIN folder
       THEN Write(folder, MEETINGS_FILE,
                  JsonContent([i \in 1..Len(folder[MEETINGS_FILE].data) |->
                      SyncRecord(folder[MEETINGS_FILE].data[i], base, safe_new)]))
       ELSE folder

\* A rename that skips the collision check.
CollisionsIgnored(candidates) == {}

\* new_UI.py 603-611: the target names that already exist in the folder.
Collisions(candidates) == {c[2] : c \in {d \in candidates : exists(d[2])}}

\* new_UI.py 565-659: POST /api/rename.
api_rename(base_in, new_base_in) ==
    LET base == strip(base_in, Whitespace)
        new_base == strip(new_base_in, Whitespace)
        safe_new == sanitize(new_base)
        candidates == Candidates(base, safe_new)
        answer(status) == [op |-> "rename", base |-> base, new |-> safe_new,
                           status |-> status]
    IN /\ IF base = <<>> \/ new_base = <<>> \/ safe_new = <<>>
             THEN /\ resp' = answer(400)
                  /\ UNCHANGED files
          ELSE IF candidates = {}
             THEN /\ resp' = answer(404)
                  /\ UNCHANGED files
          ELSE IF Collisions(candidates) # {}
             THEN /\ resp' = answer(409)
                  /\ UNCHANGED files
          ELSE /\ files' = Synced(Renamed(files, candidates), base, safe_new)
               /\ resp' = answer(200)
       /\ requests' = requests + 1
       /\ UNCHANGED runs
       /\ UNCHANGED notStore

\* new_UI.py 668-674
ToDeleteStemOnly(base) == {entry \in DOMAIN files : splitext(entry)[1] = base}
ToDelete(base) ==
    {entry \in DOMAIN files :
        splitext(entry)[1] = base \/ StartsWith(entry, base \o <<"_">>)}

\* new_UI.py 662-683: POST /api/delete.
api_delete(base) ==
    LET answer(status) == [op |-> "delete", base |-> base, new |-> <<>>,
                           status |-> status]
    IN /\ IF base = <<>>
             THEN /\ resp' = answer(400)
                  /\ UNCHANGED files
          ELSE IF ToDelete(base) = {}
             THEN /\ resp' = answer(404)
                  /\ UNCHANGED files
          ELSE /\ files' = [f \in DOMAIN files \ ToDelete(base) |-> files[f]]
               /\ resp' = answer(200)
       /\ requests' = requests + 1
       /\ UNCHANGED runs
       /\ UNCHANGED notStore

\* new_UI.py 40-80: the bases list_meetings returns an entry for.
ListedBases(folder) ==
    {splitext(f)[1] : f \in
        {g \in DOMAIN folder :
            /\ ~StartsWith(g, <<".">>)
            /\ folder[g].kind # "dir"
            /\ lower(splitext(g)[2]) \in AUDIO_EXTS}}

\* new_UI.py 535-541: the status GET /api/meeting/<base> answers with.
api_meeting_status(folder, base) ==
    IF basename(base) \in ListedBases(folder) THEN 200 ELSE 404

\* Names a user gives to meetings, as typed.
NewInputs == {<<"a">>, <<"a", ".", "b">>, <<"a", " ", "b">>,
              <<"m", "e", "e", "t", "i", "n", "g", "s">>, <<>>}

\* Bases a request may name: those of the runs, the sanitized new names, the
\* empty one.
BaseInputs ==
    {base_filename(n) : n \in 1..MaxRuns} \cup {sanitize(n) : n \in NewInputs}

Rename ==
    /\ requests < MaxRequests
    /\ \E b \in BaseInputs, n \in NewInputs : api_rename(b, n)

Delete ==
    /\ requests < MaxRequests
    /\ \E b \in BaseInputs : api_delete(b)

\* main.py 18-19: the upload folder, empty.
InitStore ==
    /\ CaptureIdle
    /\ MergeIdle
    /\ AlignIdle
    /\ pc = "save"
    /\ files = EmptyDict
    /\ runs = 0
    /\ requests = 0
    /\ resp = [op |-> "none", base |-> <<>>, new |-> <<>>, status |-> 0]

NextStore ==
    \/ RecordingRun
    \/ Rename
    \/ Delete

SpecStore == InitStore /\ [][NextStore]_vars

\* The records of meetings.json (none when the file does not exist).
Meetings(folder) ==
    IF MEETINGS_FILE \in DOMAIN folder THEN folder[MEETINGS_FILE].data ELSE <<>>

\* A record written by a recording run.
IsMeetingRecord(m) == {"id", "name", "audio", "transcript", "words"} \subseteq DOMAIN m

\* The record names the audio, transcript and words files of base b.
NamesFilesOf(m, b) ==
    /\ IsMeetingRecord(m)
    /\ \E ext \in AUDIO_EXTS : m.audio = b \o ext
    /\ m.transcript = b \o ExtJson
    /\ m.words = b \o SufWordsJson

RunStep == resp'.op = "run" /\ runs' = runs + 1
RenameStep == resp'.op = "rename" /\ requests' = requests + 1
DeleteStep == resp'.op = "delete" /\ requests' = requests + 1

\* C6: a recording run leaves the records of meetings.json as they were, in
\* order, and adds its own record as the last one; without a meetings.json
\* before the run the file holds exactly the new record.
C6_RunAppendsOneRecord ==
    [][ RunStep =>
          LET before == Meetings(files)
              after == Meetings(files')
          IN /\ MEETINGS_FILE \in DOMAIN files'
             /\ Len(after) = Len(before) + 1
             /\ SubSeq(after, 1, Len(before)) = before
             /\ after[Len(after)].id = runs'
             /\ NamesFilesOf(after[Len(after)], resp'.base)
             /\ after[Len(after)].name = resp'.base
             /\ (MEETINGS_FILE \notin DOMAIN files) => Len(after) = 1
      ]_vars

\* A run has just appended its record to an index that held another record,
\* renamed in between.
C6_Witness ==
    /\ resp.op = "run"
    /\ Len(Meetings(files)) = 2
    /\ Meetings(files)[1].name # base_filename(1)

\* C7: every meeting record of meetings.json has one base B with name = B,
\* audio = B plus an audio extension, transcript = B.json, words = B_words.json.
C7_RecordsShareOneBase ==
    \A i \in 1..Len(Meetings(files)) :
       LET m == Meetings(files)[i] IN
       IsMeetingRecord(m) => NamesFilesOf(m, m.name)

\* C8: no step changes the id of a record of meetings.json, and the ids of
\* the records in meetings.json are pairwise distinct.
C8_IdsFixedAndDistinct ==
    [][ LET before == Meetings(files)
            after == Meetings(files')
        IN /\ \A i \in 1..Len(before) :
                 (i <= Len(after) /\ "id" \in DOMAIN before[i])
                    => ("id" \in DOMAIN after[i] /\ after[i].id = before[i].id)
           /\ \A i, j \in 1..Len(after) :
                 (i # j /\ "id" \in DOMAIN after[i] /\ "id" \in DOMAIN after[j])
                    => after[i].id # after[j].id
      ]_vars

\* Two records are in the index and a rename has just rewritten one of them.
C8_Witness ==
    /\ resp.op = "rename"
    /\ resp.status = 200
    /\ Len(Meetings(files)) = 2
    /\ \E i \in 1..2 : /\ IsMeetingRecord(Meetings(files)[i])
                       /\ Meetings(files)[i].name = resp.new

\* C9: after a successful rename from B to N every record that named B's
\* files names N's files, has name N, and every file it names exists.
C9_RenameKeepsIndexInSync ==
    [][ (RenameStep /\ resp'.status = 200) =>
          LET B == resp'.base
              N == resp'.new
              before == Meetings(files)
              after == Meetings(files')
          IN \A i \in 1..Len(before) :
                NamesFilesOf(before[i], B) =>
                   /\ i <= Len(after)
                   /\ NamesFilesOf(after[i], N)
                   /\ after[i].name = N
                   /\ {after[i].audio, after[i].transcript, after[i].words}
                         \subseteq DOMAIN files'
      ]_vars

\* The files a delete of base b is to remove.
FilesOf(folder, b) ==
    {f \in DOMAIN folder :
        \/ \E k \in 1..Len(f) : f[k] = "." /\ SubSeq(f, 1, k - 1) = b
                                /\ \A j \in (k + 1)..Len(f) : f[j] # "."
        \/ f = b
        \/ (Len(f) > Len(b) /\ SubSeq(f, 1, Len(b)) = b /\ f[Len(b) + 1] = "_")}

\* C10: after a successful delete of B no file with stem B or a name starting
\* with "B_" is left, B is not listed and /api/meeting/B answers 404; when
\* there is no such file the call answers 404 and the folder is as before.
C10_DeleteRemovesMeeting ==
    [][ (DeleteStep /\ resp'.base # <<>>) =>
          LET B == resp'.base IN
          /\ (resp'.status = 200) =>
                /\ FilesOf(files', B) = {}
                /\ B \notin ListedBases(files')
                /\ api_meeting_status(files', B) = 404
                /\ \A f \in DOMAIN files \ FilesOf(files, B) :
                      f \in DOMAIN files' /\ files'[f] = files[f]
          /\ (FilesOf(files, B) = {}) =>
                (resp'.status = 404 /\ files' = files)
          /\ (FilesOf(files, B) # {}) => resp'.status = 200
      ]_vars

\* A delete has just removed a listed meeting and left another one listed.
C10_Witness ==
    /\ resp.op = "delete"
    /\ resp.status = 200
    /\ resp.base \in {base_filename(n) : n \in 1..MaxRuns}
    /\ ListedBases(files) # {}

(***************************************************************************)
(*                     the merge pass, turn by turn                        *)
(***************************************************************************)

\* The representatives registered so far whose embedding is similar to e, by
\* position in registration order.
SimilarRepresentatives(e) ==
    {k \in 1..Len(speaker_embeddings) : Similar(e, speaker_embeddings[k].emb)}

\* The least element of a non-empty set of numbers.
Least(S) == CHOOSE k \in S : \A j \in S : k <= j

\* C15: every turn of the merge pass either classifies a diarization speaker
\* seen for the first time (label of the first similar representative, else
\* the fresh label "speakerK" with K one more than the number of
\* representatives) or, for a speaker already in merged_mapping, changes no
\* entry of merged_mapping.
C15_ClassifiedOnceAtFirstTurn ==
    [][(pc = "merge" /\ turn_index' = turn_index + 1) =>
        LET turn == diarization[turn_index]
            similar == SimilarRepresentatives(turn.emb)
        IN IF turn.speaker \in DOMAIN merged_mapping
              THEN merged_mapping' = merged_mapping
              ELSE /\ DOMAIN merged_mapping' =
                         DOMAIN merged_mapping \cup {turn.speaker}
                   /\ \A s \in DOMAIN merged_mapping :
                         merged_mapping'[s] = merged_mapping[s]
                   /\ merged_mapping'[turn.speaker] =
                         IF similar # {}
                            THEN merged_mapping[
                                    speaker_embeddings[Least(similar)].speaker]
                            ELSE NewLabel(Len(speaker_embeddings) + 1)]_vars

(***************************************************************************)
(*                  rename: collisions and other meetings                  *)
(***************************************************************************)

\* The suffixes /api/rename looks for after a base: the audio extensions and
\* the companion files.
RenameSuffixes ==
    AUDIO_EXTS \cup {ExtTxt, ExtDocx, ExtJson, SufWordsJson, SufDiarizedJson,
                     SufSpeakeredJson, SufSpeakeredTxt}

\* The target names of a rename of base b to n: one per existing file b+suffix.
TargetNames(folder, b, n) ==
    {n \o suffix : suffix \in {x \in RenameSuffixes : (b \o x) \in DOMAIN folder}}

\* C14: a rename whose target names collide with existing files answers 409,
\* renames nothing and leaves meetings.json as it was; this includes a rename
\* of a base to itself.
C14_CollisionRejectedWithoutEffect ==
    [][(RenameStep /\ resp'.base # <<>> /\ resp'.new # <<>>
          /\ TargetNames(files, resp'.base, resp'.new) \cap DOMAIN files # {})
        => (resp'.status = 409 /\ files' = files)]_vars

\* A rename onto the files of another base has been rejected while the index
\* is present.
C14_Witness ==
    /\ resp.op = "rename"
    /\ resp.status = 409
    /\ resp.base # resp.new
    /\ MEETINGS_FILE \in DOMAIN files
    /\ TargetNames(files, resp.base, resp.new) \cap DOMAIN files # {}

\* The file names /api/rename treats as the files of base b.
NamesOfBase(b) == {b \o suffix : suffix \in RenameSuffixes}

\* Record m of meetings.json refers to base b: by its name or by one of its
\* file fields.
RefersTo(m, b) ==
    \/ "name" \in DOMAIN m /\ m["name"] = b
    \/ \E key \in {"audio", "transcript", "words"} \cap DOMAIN m :
          m[key] \in NamesOfBase(b)

\* C16: a successful rename of base B keeps every file that is not one of
\* B's files under its name with its content, and leaves every record of
\* meetings.json that does not refer to B unchanged in all fields (when
\* meetings.json is not itself one of B's files).
C16_RenameLeavesOthersUntouched ==
    [][(RenameStep /\ resp'.status = 200) =>
          LET B == resp'.base
              before == Meetings(files)
              after == Meetings(files')
          IN /\ \A f \in (DOMAIN files \ NamesOfBase(B)) \ {MEETINGS_FILE} :
                   f \in DOMAIN files' /\ files'[f] = files[f]
             /\ (MEETINGS_FILE \in DOMAIN files \ NamesOfBase(B)) =>
                   /\ MEETINGS_FILE \in DOMAIN files'
                   /\ Len(after) = Len(before)
                   /\ \A i \in 1..Len(before) :
                         ~RefersTo(before[i], B) => after[i] = before[i]
      ]_vars

(***************************************************************************)
(*                      dashboard: the meeting list                        *)
(*                                                                         *)
(* In the specifications of the dashboard's reading side a file also       *)
(* carries its modification time, files[name].mtime, counted in ticks of   *)
(* 30 seconds; a directory is an entry of kind "dir".                      *)
(***************************************************************************)

MaxMtime == 3

\* None where a file name is expected: a file name is never empty.
NoFile == <<>>

SufSpeakeredStem == <<"_", "s", "p", "e", "a", "k", "e", "r", "e", "d">>

DigitChars == <<"0", "1", "2", "3", "4", "5", "6", "7", "8", "9">>

\* The characters of file names in code-point order.
CodeOrder == <<" ", "-", ".">> \o DigitChars \o UpperCase \o <<"_">> \o LowerCase

Code(c) == CHOOSE i \in 1..Len(CodeOrder) : CodeOrder[i] = c

\* a < b on Python strings.
NameLess(a, b) ==
    \E k \in 1..(Len(a) + 1) :
        /\ k <= Len(b)
        /\ \A j \in 1..(k - 1) : a[j] = b[j]
        /\ (k = Len(a) + 1 \/ Code(a[k]) < Code(b[k]))

RECURSIVE SortNames(_)
SortNames(S) ==
    IF S = {} THEN <<>>
    ELSE LET first == CHOOSE a \in S : \A b \in S \ {a} : NameLess(a, b)
         IN <<first>> \o SortNames(S \ {first})

\* new_UI.py 45: sorted(os.listdir(UPLOAD_FOLDER))
sorted_listdir(folder) == SortNames(DOMAIN folder)

isfile(folder, f) == folder[f].kind # "dir"

getmtime(folder, f) == folder[f].mtime

\* new_UI.py 53-54: the entry a base starts with.
NewEntry(base) ==
    [base |-> base, audio |-> NoFile, transcript |-> NoFile, docx |-> NoFile,
     words_json |-> NoFile, speakered_txt |-> NoFile, mtime |-> 0]

\* new_UI.py 51-66: file f recorded in the entry of its base.
WithFile(ent, f) ==
    LET base == splitext(f)[1]
        ext == lower(splitext(f)[2])
    IN IF ext \in AUDIO_EXTS THEN [ent EXCEPT !.audio = f]
       ELSE IF ext = ExtTxt
          THEN IF EndsWith(base, SufSpeakeredStem) \/ EndsWith(f, SufSpeakeredTxt)
                  THEN [ent EXCEPT !.speakered_txt = f]
                  ELSE [ent EXCEPT !.transcript = f]
       ELSE IF ext = ExtDocx THEN [ent EXCEPT !.docx = f]
       ELSE IF \/ EndsWith(f, SufWordsJson)
               \/ EndsWith(f, SufDiarizedJson)
               \/ EndsWith(f, SufSpeakeredJson)
          THEN [ent EXCEPT !.words_json = f]
       ELSE ent

\* An entry that takes the time of the file seen last.
WithLastMtime(ent, m) == [ent EXCEPT !.mtime = m]

\* new_UI.py 67-72: the entry keeps the newest modification time.
WithMtime(ent, m) == IF m > ent.mtime THEN [ent EXCEPT !.mtime = m] ELSE ent

\* The position of base in the entries (a dict in insertion order), 0 if new.
EntryIndex(entries, base) ==
    IF \E k \in 1..Len(entries) : entries[k].base = base
       THEN CHOOSE k \in 1..Len(entries) : entries[k].base = base
       ELSE 0

\* new_UI.py 46-72: one round of the loop over the folder.
Grouped(folder, entries, f) ==
    IF StartsWith(f, <<".">>) \/ ~isfile(folder, f) THEN entries
    ELSE LET base == splitext(f)[1]
             k == EntryIndex(entries, base)
             ent == IF k = 0 THEN NewEntry(base) ELSE entries[k]
             updated == WithMtime(WithFile(ent, f), getmtime(folder, f))
         IN IF k = 0 THEN Append(entries, updated)
            ELSE [entries EXCEPT ![k] = updated]

RECURSIVE GroupFrom(_, _, _, _)
GroupFrom(folder, names, k, entries) ==
    IF k > Len(names) THEN entries
    ELSE GroupFrom(folder, names, k + 1, Grouped(folder, entries, names[k]))

\* new_UI.py 79: list.sort(key = mtime, reverse = True) is stable; an element
\* goes behind the elements that are at least as new.
InsertByMtime(sorted, info) ==
    LET k == Cardinality({j \in 1..Len(sorted) : sorted[j].mtime >= info.mtime})
    IN SubSeq(sorted, 1, k) \o <<info>> \o SubSeq(sorted, k + 1, Len(sorted))

RECURSIVE SortFrom(_, _, _)
SortFrom(list, k, sorted) ==
    IF k > Len(list) THEN sorted
    ELSE SortFrom(list, k + 1, InsertByMtime(sorted, list[k]))

\* new_UI.py 76: the time as shown, to the minute.
MinuteStr == <<"00:00", "00:01", "00:02", "00:03", "00:04">>
mtime_str(m) == IF m # 0 THEN MinuteStr[(m \div 2) + 1] ELSE ""

\* new_UI.py 40-80
list_meetings(folder) ==
    LET entries == GroupFrom(folder, sorted_listdir(folder), 1, <<>>)
        meetings == SelectSeq(entries, LAMBDA info : info.audio # NoFile)
    IN SortFrom(meetings, 1, <<>>)

\* new_UI.py 82-87
load_txt_lines(folder, name) ==
    [k \in 1..Len(folder[name].data) |-> rstrip(folder[name].data[k], Whitespace)]

\* new_UI.py 89-94
load_docx_lines(folder, name) ==
    LET stripped == [k \in 1..Len(folder[name].data) |->
                        strip(folder[name].data[k], Whitespace)]
    IN SelectSeq(stripped, LAMBDA line : line # <<>>)

FirstTwo(lines) == SubSeq(lines, 1, IF Len(lines) < 2 THEN Len(lines) ELSE 2)

\* new_UI.py 513-533: the body of GET /api/files.
api_files(folder) ==
    LET meetings == list_meetings(folder) IN
    [k \in 1..Len(meetings) |->
        LET m == meetings[k] IN
        [base |-> m.base, audio |-> m.audio, transcript |-> m.transcript,
         docx |-> m.docx, words_json |-> m.words_json,
         speakered_txt |-> m.speakered_txt, mtime_str |-> mtime_str(m.mtime),
         preview |-> IF m.transcript # NoFile
                        THEN FirstTwo(load_txt_lines(folder, m.transcript))
                     ELSE IF m.docx # NoFile
                        THEN FirstTwo(load_docx_lines(folder, m.docx))
                     ELSE <<>>]]

notList == <<audio_queue, silence_start_time, recording, now, speechOver,
             lastFrame, speechSince, pc, diarization, transcript_segments,
             turn_index, speaker_embeddings, merged_mapping, speaker_counter,
             speaker_segments, seg_index, final_output, word_level_data,
             files, runs, requests>>

\* GET /api/files
ApiFiles ==
    /\ resp' = [op |-> "files", base |-> <<>>, new |-> <<>>, status |-> 200,
                body |-> api_files(files)]
    /\ UNCHANGED notList

\* The names found in the upload folder of the listing model, with their
\* kinds: audio of two meetings (one with an upper-case extension), a
\* transcript, a hidden file, a directory and a text without audio.
ListNames ==
    [name : {<<"a", ".", "w", "a", "v">>, <<"b", ".", "M", "P", "3">>,
             <<".", "h", ".", "w", "a", "v">>},
     kind : {"audio"}]
    \cup [name : {<<"a", ".", "t", "x", "t">>, <<"e", ".", "t", "x", "t">>},
          kind : {"text"}]
    \cup [name : {<<"d", ".", "w", "a", "v">>}, kind : {"dir"}]

KindOf(name) == (CHOOSE x \in ListNames : x.name = name).kind

\* The folders of the listing model: any of the names, each with any time.
InitList ==
    /\ CaptureIdle
    /\ MergeIdle
    /\ AlignIdle
    /\ pc = "save"
    /\ \E present \in SUBSET {x.name : x \in ListNames} :
          \E time \in [present -> 1..MaxMtime] :
             files = [name \in present |->
                        [kind |-> KindOf(name), data |-> <<>>,
                         mtime |-> time[name]]]
    /\ runs = 0
    /\ requests = 0
    /\ resp = [op |-> "none", base |-> <<>>, new |-> <<>>, status |-> 0]

NextList == ApiFiles

SpecList == InitList /\ [][NextList]_vars

(***************************************************************************)
(*                     dashboard: a meeting's segments                     *)
(*                                                                         *)
(* A text file's data is its sequence of lines, a JSON file's data the     *)
(* list it holds (records with the keys present in the file), an audio     *)
(* file's data <<d>> for a WAV of duration d that the wave module reads    *)
(* and <<>> otherwise.  Times are whole hundredths of a second; the        *)
(* strings inside JSON are opaque values, the lines of text files are      *)
(* sequences of characters.                                                *)
(***************************************************************************)

MaxWordList == 4

Unknown == "Unknown"
UnknownChars == <<"U", "n", "k", "n", "o", "w", "n">>

\* dict.get(key, default)
Get(rec, key, default) == IF key \in DOMAIN rec THEN rec[key] ELSE default

\* new_UI.py 96-102: None unless the file is valid JSON.
load_json(folder, name) ==
    IF folder[name].kind = "json" THEN folder[name].data ELSE <<>>

\* new_UI.py 104-110
audio_duration(folder, name) ==
    IF folder[name].kind = "audio" /\ Len(folder[name].data) = 1
       THEN folder[name].data[1]
       ELSE NoTime

\* "if dur" in Python: neither None nor zero.
HasDuration(dur) == dur # NoTime /\ dur # 0

\* a or b or ...: the first value that is not falsy, else the last one.
RECURSIVE OrChain(_, _, _)
OrChain(values, k, falsy) ==
    IF k = Len(values) \/ values[k] \notin falsy THEN values[k]
    ELSE OrChain(values, k + 1, falsy)

\* new_UI.py 141-154: the JSON files to try, in order.
JsonCandidates(folder, info) ==
    LET byName == SelectSeq(<<info.base \o SufWordsJson,
                              info.base \o SufDiarizedJson,
                              info.base \o SufSpeakeredJson>>,
                            LAMBDA name : name \in DOMAIN folder)
    IN IF info.words_json # NoFile
          /\ \A k \in 1..Len(byName) : byName[k] # info.words_json
          THEN <<info.words_json>> \o byName
          ELSE byName

\* new_UI.py 160
IsWordList(data) == Len(data) > 0 /\ "word" \in DOMAIN data[1]

\* new_UI.py 195
IsSegmentList(data) ==
    Len(data) > 0 /\ ("speaker" \in DOMAIN data[1] \/ "text" \in DOMAIN data[1])

\* new_UI.py 162-168: times as floats, a missing speaker becomes "Unknown".
NormalizedWord(w) ==
    [key \in DOMAIN w \cup {"speaker"} |->
        IF key \in DOMAIN w THEN w[key] ELSE Unknown]

RECURSIVE JoinFrom(_, _, _)
JoinFrom(strings, k, sep) ==
    IF k > Len(strings) THEN ""
    ELSE IF k = Len(strings) THEN strings[k]
    ELSE strings[k] \o sep \o JoinFrom(strings, k + 1, sep)

\* new_UI.py 177-180 and 186-189: the segment of the words collected.
TurnSegment(cur_sp, cur_words) ==
    LET last == cur_words[Len(cur_words)] IN
    [speaker |-> cur_sp,
     start |-> cur_words[1].start,
     end |-> Get(last, "end", last.start),
     text |-> JoinFrom([k \in 1..Len(cur_words) |-> cur_words[k].word], 1, " "),
     words |-> cur_words]

\* A grouping step that closes the segment but keeps the old speaker.
GroupedWordKeepsSpeaker(st, w) ==
    IF w.speaker # st.cur_sp /\ st.cur_words # <<>>
       THEN [st EXCEPT !.segments = Append(@, TurnSegment(st.cur_sp, st.cur_words)),
                       !.cur_words = <<w>>]
       ELSE [st EXCEPT !.cur_words = Append(@, w)]

\* new_UI.py 174-184: one round of the grouping loop.
GroupedWord(st, w) ==
    IF w.speaker # st.cur_sp /\ st.cur_words # <<>>
       THEN [segments |-> Append(st.segments, TurnSegment(st.cur_sp, st.cur_words)),
             cur_sp |-> w.speaker,
             cur_words |-> <<w>>]
       ELSE [st EXCEPT !.cur_words = Append(@, w)]

RECURSIVE GroupWordsFrom(_, _, _)
GroupWordsFrom(words, k, st) ==
    IF k > Len(words) THEN st
    ELSE GroupWordsFrom(words, k + 1, GroupedWord(st, words[k]))

\* new_UI.py 160-192: CASE A, segments from a list of words.
SegmentsFromWords(data) ==
    LET words == [k \in 1..Len(data) |-> NormalizedWord(data[k])]
        st == GroupWordsFrom(words, 1, [segments |-> <<>>,
                                        cur_sp |-> words[1].speaker,
                                        cur_words |-> <<>>])
    IN IF st.cur_words # <<>>
          THEN Append(st.segments, TurnSegment(st.cur_sp, st.cur_words))
          ELSE st.segments

\* new_UI.py 205-214: a word of a segment, normalised.
CleanWord(w, sp) ==
    [word |-> OrChain(<<Get(w, "word", ""), Get(w, "text", ""),
                        Get(w, "word_text", ""), "">>, 1, {""}),
     start |-> OrChain(<<Get(w, "start", NoTime), Get(w, "start_time", NoTime),
                         Get(w, "ts", NoTime), Get(w, "t0", NoTime)>>, 1,
                       {NoTime, 0}),
     end |-> OrChain(<<Get(w, "end", NoTime), Get(w, "end_time", NoTime),
                       Get(w, "t1", NoTime)>>, 1, {NoTime, 0}),
     speaker |-> sp]

\* new_UI.py 198-218: a segment of the list, normalised.
CleanSegment(s) ==
    LET sp == OrChain(<<Get(s, "speaker", ""), Get(s, "label", ""), Unknown>>,
                      1, {""})
        start == Get(s, "start", NoTime)
        end == Get(s, "end", NoTime)
        text == OrChain(<<Get(s, "text", ""), Get(s, "utterance", ""), "">>,
                        1, {""})
    IN IF "words" \notin DOMAIN s
          THEN [speaker |-> sp, start |-> start, end |-> end, text |-> text,
                words |-> None]
          ELSE LET words == [k \in 1..Len(s.words) |-> CleanWord(s.words[k], sp)]
                   fromWords == (start = NoTime \/ end = NoTime) /\ words # <<>>
                   last == words[Len(words)]
               IN [speaker |-> sp,
                   start |-> IF fromWords THEN words[1].start ELSE start,
                   end |-> IF fromWords
                              THEN IF last.end # NoTime THEN last.end
                                   ELSE last.start
                              ELSE end,
                   text |-> text,
                   words |-> words]

\* new_UI.py 195-219: CASE B, segments from a list of segments.
SegmentsFromSegments(data) == [k \in 1..Len(data) |-> CleanSegment(data[k])]

\* new_UI.py 156-219: the first candidate that holds a list of words or of
\* segments decides; an empty or unreadable file is passed over.
RECURSIVE TryJson(_, _, _)
TryJson(folder, candidates, k) ==
    IF k > Len(candidates) THEN [found |-> FALSE, segments |-> <<>>]
    ELSE LET data == load_json(folder, candidates[k]) IN
         IF data = <<>> THEN TryJson(folder, candidates, k + 1)
         ELSE IF IsWordList(data)
            THEN [found |-> TRUE, segments |-> SegmentsFromWords(data)]
         ELSE IF IsSegmentList(data)
            THEN [found |-> TRUE, segments |-> SegmentsFromSegments(data)]
         ELSE TryJson(folder, candidates, k + 1)

\* The position of the first colon of a line, 0 if it has none.
ColonIndex(ln) ==
    IF \E k \in 1..Len(ln) : ln[k] = ":"
       THEN CHOOSE k \in 1..Len(ln) :
               ln[k] = ":" /\ \A j \in 1..(k - 1) : ln[j] # ":"
       ELSE 0

\* new_UI.py 115-123: one line of a speakered text taken into the segments.
ParsedLine(segments, ln) ==
    LET c == ColonIndex(ln) IN
    IF c # 0
       THEN Append(segments,
                   [speaker |-> strip(SubSeq(ln, 1, c - 1), Whitespace),
                    text |-> strip(SubSeq(ln, c + 1, Len(ln)), Whitespace),
                    start |-> NoTime, end |-> NoTime])
    ELSE IF segments # <<>>
       THEN [segments EXCEPT ![Len(segments)].text =
                @ \o <<" ">> \o strip(ln, Whitespace)]
    ELSE <<[speaker |-> UnknownChars, text |-> strip(ln, Whitespace),
            start |-> NoTime, end |-> NoTime]>>

RECURSIVE ParseFrom(_, _, _)
ParseFrom(lines, k, segments) ==
    IF k > Len(lines) THEN segments
    ELSE ParseFrom(lines, k + 1, ParsedLine(segments, lines[k]))

\* new_UI.py 112-124
parse_speakered_txt(folder, name) ==
    ParseFrom(load_txt_lines(folder, name), 1, <<>>)

\* round(a / n, 2) of a time a / n in hundredths: to the nearest whole
\* hundredth, a tie to the even one.
RoundDiv(a, n) ==
    LET q == a \div n
        r == a % n
    IN IF 2 * r < n THEN q
       ELSE IF 2 * r > n THEN q + 1
       ELSE IF q % 2 = 0 THEN q ELSE q + 1

\* new_UI.py 224-228: the segments spread evenly over the recording, each at
\* least half a second long: per = max(0.5, dur / len(segments)).
Spread(segments, dur) ==
    LET n == Len(segments)
        num == IF dur < 50 * n THEN 50 ELSE dur
        den == IF dur < 50 * n THEN 1 ELSE n
    IN [i \in 1..n |->
          [segments[i] EXCEPT
              !.start = RoundDiv((i - 1) * num, den),
              !.end = RoundDiv(IF dur * den < i * num THEN dur * den
                               ELSE i * num, den)]]

RECURSIVE JoinLines(_, _)
JoinLines(lines, k) ==
    IF k > Len(lines) THEN <<>>
    ELSE IF k = Len(lines) THEN lines[k]
    ELSE lines[k] \o <<" ">> \o JoinLines(lines, k + 1)

\* new_UI.py 126-240
build_diarized_segments(folder, base_info) ==
    LET dur == audio_duration(folder, base_info.audio)
        json == TryJson(folder, JsonCandidates(folder, base_info), 1)
    IN IF json.found THEN json.segments
       ELSE IF base_info.speakered_txt # NoFile
               /\ base_info.speakered_txt \in DOMAIN folder
          THEN LET segments == parse_speakered_txt(folder, base_info.speakered_txt)
               IN IF HasDuration(dur) /\ Len(segments) # 0
                     THEN Spread(segments, dur)
                     ELSE segments
       ELSE IF base_info.transcript # NoFile
               /\ base_info.transcript \in DOMAIN folder
          THEN <<[speaker |-> UnknownChars, start |-> 0,
                  end |-> IF HasDuration(dur) THEN dur ELSE 0,
                  text |-> JoinLines(load_txt_lines(folder, base_info.transcript), 1)]>>
       ELSE <<>>

\* new_UI.py 535-549: GET /api/meeting/<base>.
api_meeting(folder, base_in) ==
    LET base == basename(base_in)
        meetings == list_meetings(folder)
        found == {k \in 1..Len(meetings) : meetings[k].base = base}
    IN IF found = {}
          THEN [op |-> "meeting", base |-> base, new |-> <<>>, status |-> 404,
                body |-> [error |-> "not found"]]
          ELSE LET info == meetings[CHOOSE k \in found : \A j \in found : k <= j]
               IN [op |-> "meeting", base |-> base, new |-> <<>>, status |-> 200,
                   body |-> [base |-> base, audio |-> info.audio,
                             segments |-> build_diarized_segments(folder, info)]]

\* The meetings asked for: "m", "x_speakered" and "m_speakered", the base
\* list_meetings files m_speakered.txt under.
BaseM == <<"m">>
BaseMSpeakered == BaseM \o SufSpeakeredStem
BaseXSpeakered == <<"x">> \o SufSpeakeredStem
MeetingBases == {BaseM, BaseMSpeakered, BaseXSpeakered}

\* GET /api/meeting/<base>
ApiMeeting ==
    /\ \E base \in MeetingBases : resp' = api_meeting(files, base)
    /\ UNCHANGED notList

File(kind, data) == [kind |-> kind, data |-> data, mtime |-> 1]

WordsSample ==
    <<[word |-> "hi", start |-> 0, end |-> 40, speaker |-> "speaker1"],
      [word |-> "yo", start |-> 50, end |-> 90, speaker |-> "speaker2"]>>
DiarizedSample ==
    <<[speaker |-> "D1", text |-> "dia", start |-> 0, end |-> 100],
      [label |-> "D2", utterance |-> "more",
       words |-> <<[text |-> "more", start_time |-> 100, t1 |-> 150]>>]>>
SpeakeredSample ==
    <<[speaker |-> "S1", text |-> "spk", start |-> 0, end |-> 100]>>
SpeakeredLines == <<<<"A", ":", " ", "h", "i">>, <<"t", "h", "e", "r", "e">>, <<"B", ":", "y", "o">>>>
PlainLines == <<<<"p", "l", "a", "i", "n", " ">>, <<"t", "e", "x", "t">>>>
IntroLines == <<<<"i", "n", "t", "r", "o">>, <<"A", ":", " ", "h", "i">>, <<"B", ":", " ", "y", "o", " ">>>>

\* No file under a name.
Absent == [kind |-> "absent", data |-> <<>>, mtime |-> 0]

\* The contents a file of the meeting "m" may have.
Choices ==
    [wav : {Absent, File("audio", <<>>), File("audio", <<200>>)},
     words : {Absent, File("json", <<>>), File("json", WordsSample)},
     diarized : {Absent, File("json", <<>>), File("json", DiarizedSample)},
     speakered : {Absent, File("json", SpeakeredSample)},
     speakered_txt : {Absent, File("text", SpeakeredLines)},
     txt : {Absent, File("text", PlainLines)},
     other : BOOLEAN]

\* The folder of a choice: the files of "m" that are present and, with
\* other, the meeting "x_speakered" with audio and text.
FolderOf(c) ==
    LET names == [wav |-> BaseM \o ExtWav, words |-> BaseM \o SufWordsJson,
                  diarized |-> BaseM \o SufDiarizedJson,
                  speakered |-> BaseM \o SufSpeakeredJson,
                  speakered_txt |-> BaseM \o SufSpeakeredTxt,
                  txt |-> BaseM \o ExtTxt]
        present == {key \in DOMAIN names : c[key].kind # "absent"}
        others == IF c.other THEN {BaseXSpeakered \o ExtWav, BaseXSpeakered \o ExtTxt}
                  ELSE {}
    IN [name \in {names[key] : key \in present} \cup others |->
          IF name = BaseXSpeakered \o ExtWav THEN File("audio", <<200>>)
          ELSE IF name = BaseXSpeakered \o ExtTxt THEN File("text", IntroLines)
          ELSE c[CHOOSE key \in present : names[key] = name]]

WordTexts == <<"a", "b", "c", "d", "e", "f">>

\* The k-th word of a list: it starts at k - 1 half seconds; the keys "end"
\* and "speaker" may be missing.
MakeWord(k, shape) ==
    LET full == [word |-> WordTexts[k], start |-> 50 * (k - 1),
                 end |-> 50 * k - 10, speaker |-> shape.speaker]
        keys == {"word", "start"}
                   \cup (IF shape.hasEnd THEN {"end"} ELSE {})
                   \cup (IF shape.speaker # "" THEN {"speaker"} ELSE {})
    IN [key \in keys |-> full[key]]

\* The shapes of the words of a list of n words.
WordShapes(n) == [1..n -> [speaker : {"speaker1", "speaker2", ""}, hasEnd : BOOLEAN]]

\* A folder with the audio of "m" and a list of words.
WordFolder(list) ==
    [name \in {BaseM \o ExtWav, BaseM \o SufWordsJson} |->
        IF name = BaseM \o ExtWav THEN File("audio", <<>>)
        ELSE File("json", list)]

InitMeeting ==
    /\ CaptureIdle
    /\ MergeIdle
    /\ AlignIdle
    /\ pc = "save"
    /\ \/ \E c \in Choices : files = FolderOf(c)
       \/ \E n \in 1..MaxWordList :
             \E shapes \in WordShapes(n) :
                files = WordFolder([k \in 1..n |-> MakeWord(k, shapes[k])])
    /\ runs = 0
    /\ requests = 0
    /\ resp = [op |-> "none", base |-> <<>>, new |-> <<>>, status |-> 0]

NextMeeting == ApiMeeting

SpecMeeting == InitMeeting /\ [][NextMeeting]_vars

\* The regular, non-hidden files of the folder.
Visible(folder) ==
    {f \in DOMAIN folder : f[1] # "." /\ folder[f].kind # "dir"}

\* The bases b with a visible file b+ext, ext one of AUDIO_EXTS as written.
AudioBases(folder) ==
    {SubSeq(f, 1, Len(f) - Len(ext)) :
        <<f, ext>> \in {x \in Visible(folder) \X AUDIO_EXTS : EndsWith(x[1], x[2])}}

\* The same with the extension compared without regard to case.
AudioBasesAnyCase(folder) ==
    {SubSeq(f, 1, Len(f) - Len(ext)) :
        <<f, ext>> \in {x \in Visible(folder) \X AUDIO_EXTS :
                           EndsWith(lower(x[1]), x[2])}}

\* The newest modification time among the visible files grouped under base b.
Newest(folder, b) ==
    LET times == {folder[f].mtime : f \in {g \in Visible(folder) : splitext(g)[1] = b}}
    IN CHOOSE t \in times : \A u \in times : u <= t

\* The answer of /api/files lists exactly the bases in S, once each, by
\* newest modification time, most recent first.
ListsExactly(S) ==
    LET out == resp.body IN
    /\ {out[k].base : k \in 1..Len(out)} = S
    /\ \A j, k \in 1..Len(out) : j # k => out[j].base # out[k].base
    /\ \A j, k \in 1..Len(out) :
          j < k => Newest(files, out[j].base) >= Newest(files, out[k].base)

\* C11 as stated: the list has one entry per base with a visible file
\* base+ext, ext in AUDIO_EXTS, no other entry, newest first.
C11_ListsBasesWithAudioExt ==
    resp.op = "files" => ListsExactly(AudioBases(files))

\* C11: the list has one entry per base with a visible file base+ext whose
\* extension is, in lower case, in AUDIO_EXTS, no other entry, and the entries
\* are ordered by the newest modification time of the base's files, most
\* recent first.
C11_ListsBasesWithAudioAnyCase ==
    resp.op = "files" => ListsExactly(AudioBasesAnyCase(files))

\* Two meetings are listed, one of them for audio with an upper-case
\* extension, one with a transcript newer than its audio, next to a hidden
\* file, a directory and a text without audio that are not listed.
C11_Witness ==
    /\ resp.op = "files"
    /\ Len(resp.body) = 2
    /\ AudioBases(files) # AudioBasesAnyCase(files)
    /\ \E f \in DOMAIN files : f[1] = "."
    /\ \E f \in DOMAIN files : files[f].kind = "dir"
    /\ \E f \in Visible(files) : splitext(f)[1] \notin AudioBasesAnyCase(files)
    /\ \E k \in 1..2 :
          /\ resp.body[k].transcript # NoFile
          /\ files[resp.body[k].transcript].mtime > files[resp.body[k].audio].mtime
    /\ resp.body[1].mtime_str # resp.body[2].mtime_str

\* The file holds something: it exists and is not empty.
Holds(name) == name \in DOMAIN files /\ files[name].data # <<>>

FromJson(data) ==
    IF IsWordList(data) THEN SegmentsFromWords(data) ELSE SegmentsFromSegments(data)

\* The segments of a speakered text, timed when the audio has a duration.
FromSpeakeredTxt(name, dur) ==
    LET segments == parse_speakered_txt(files, name)
    IN IF HasDuration(dur) /\ segments # <<>> THEN Spread(segments, dur)
       ELSE segments

\* C12: the segments of a listed meeting B come from B_words.json when it
\* holds something, otherwise from B_diarized.json or B_speakered.json,
\* otherwise from B_speakered.txt parsed into speaker segments, otherwise
\* from B.txt as one "Unknown" segment, and are empty when none of them
\* exists.
C12_SourceByDocumentedPriority ==
    (resp.op = "meeting" /\ resp.status = 200) =>
       LET B == resp.base
           segments == resp.body.segments
           dur == audio_duration(files, resp.body.audio)
       IN IF Holds(B \o SufWordsJson)
             THEN segments = FromJson(files[B \o SufWordsJson].data)
          ELSE IF Holds(B \o SufDiarizedJson) \/ Holds(B \o SufSpeakeredJson)
             THEN \E name \in {B \o SufDiarizedJson, B \o SufSpeakeredJson} :
                     Holds(name) /\ segments = FromJson(files[name].data)
          ELSE IF (B \o SufSpeakeredTxt) \in DOMAIN files
             THEN segments = FromSpeakeredTxt(B \o SufSpeakeredTxt, dur)
          ELSE IF (B \o ExtTxt) \in DOMAIN files
             THEN Len(segments) = 1 /\ segments[1].speaker = UnknownChars
          ELSE segments = <<>>

RECURSIVE WordsFrom(_, _)
WordsFrom(segments, k) ==
    IF k > Len(segments) THEN <<>>
    ELSE segments[k].words \o WordsFrom(segments, k + 1)

\* C13: the segments built from a non-empty word list are the maximal runs
\* of consecutive words with the same speaker: their word lists concatenated
\* give the list in order (a word without speaker counted as "Unknown"),
\* every word has its segment's speaker, no segment is empty and adjacent
\* segments have different speakers.
C13_SegmentsAreSpeakerRuns ==
    (/\ resp.op = "meeting"
     /\ resp.status = 200
     /\ Holds(resp.base \o SufWordsJson)
     /\ "word" \in DOMAIN files[resp.base \o SufWordsJson].data[1]) =>
       LET data == files[resp.base \o SufWordsJson].data
           list == [k \in 1..Len(data) |->
                      [key \in DOMAIN data[k] \cup {"speaker"} |->
                          IF key \in DOMAIN data[k] THEN data[k][key]
                          ELSE "Unknown"]]
           segments == resp.body.segments
       IN /\ WordsFrom(segments, 1) = list
          /\ \A k \in 1..Len(segments) :
                /\ segments[k].words # <<>>
                /\ \A j \in 1..Len(segments[k].words) :
                      segments[k].words[j].speaker = segments[k].speaker
          /\ \A k \in 1..(Len(segments) - 1) :
                segments[k].speaker # segments[k + 1].speaker

\* A list of words has been cut into three segments, one of them of two
\* words, one of them of words without speaker.
C13_Witness ==
    /\ resp.op = "meeting"
    /\ resp.status = 200
    /\ Holds(resp.base \o SufWordsJson)
    /\ Len(files[resp.base \o SufWordsJson].data) = 4
    /\ \E k \in 1..4 : "speaker" \notin DOMAIN files[resp.base \o SufWordsJson].data[k]
    /\ Len(resp.body.segments) = 3
    /\ \E k \in 1..3 : resp.body.segments[k].speaker = "Unknown"
    /\ \E k \in 1..3 : Len(resp.body.segments[k].words) = 2

(***************************************************************************)
(*                   specification of the capture loop                     *)
(***************************************************************************)
InitCapture ==
    /\ CaptureInit
    /\ pc = "capture"
    /\ MergeIdle
    /\ AlignIdle
    /\ StoreIdle

NextCapture ==
    \/ callback
    \/ StopSpeaking
    \/ Tick
    \/ ProcessFrame
    \/ QueueEmpty

SpecCapture == InitCapture /\ [][NextCapture]_vars

\* The loop iterates as long as `recording` holds, the stream keeps calling
\* the callback while it is open, and time passes.
SpecCaptureFair ==
    /\ SpecCapture
    /\ WF_vars(MainLoop)
    /\ WF_vars(callback)
    /\ WF_vars(Tick)

\* A step of the loop that processes the frame at the head of the queue.
ProcessesFrame == Len(audio_queue') < Len(audio_queue)

\* C1: `recording` becomes False only in a step that processes a non-speech
\* frame, with no speech frame processed since silence_start_time was set and
\* with more than silence_duration_limit elapsed since then; a step that
\* processes a speech frame resets silence_start_time and leaves the loop
\* running, so the loop is running whenever the last processed frame is speech.
C1_StopsOnlyOnSilenceTimeout ==
    [][ /\ (recording /\ ~recording') =>
              /\ ProcessesFrame
              /\ ~is_speech(Head(audio_queue))
              /\ silence_start_time # NoTime
              /\ ~speechSince
              /\ now - silence_start_time > silence_duration_limit
        /\ (ProcessesFrame /\ is_speech(Head(audio_queue))) =>
              /\ silence_start_time' = NoTime
              /\ recording'
        /\ (lastFrame' = "speech") => recording'
      ]_vars

\* The loop stopped on a silence timeout after speech had been heard.
C1_Witness ==
    /\ ~recording
    /\ lastFrame = "silence"
    /\ silence_start_time # NoTime
    /\ now - silence_start_time > silence_duration_limit

\* C2: under fair scheduling of the loop, the callback and the clock, once
\* every new frame is non-speech the loop eventually stops.
C2_EventuallyStops == speechOver ~> ~recording

\* The speaker stopped and the loop has ended.
C2_Witness == speechOver /\ ~recording

\* C3: once non-speech frames have been processed for more than the announced
\* 1 second, the next non-speech frame processed stops the loop.
C3_StopsAfterAnnouncedSecond ==
    [][ ( /\ recording
          /\ ProcessesFrame
          /\ ~is_speech(Head(audio_queue))
          /\ silence_start_time # NoTime
          /\ ~speechSince
          /\ now - silence_start_time > announced_silence_limit )
        => ~recording' ]_vars
====
